---- MODULE Spec2Model ----
(***************************************************************************)
(* EconBank (src/econApp.py): a Streamlit ledger.  Every browser session   *)
(* owns st.session_state ('data', 'logged_in_user', 'page'); all sessions  *)
(* share one JSON file.  One action below is one run of the script caused  *)
(* by one click.                                                           *)
(*                                                                         *)
(* Strings the code inspects character by character (usernames, passwords) *)
(* are sequences of one-character strings.  Amounts are whole numbers of   *)
(* the widget's step (0.01).                                               *)
(***************************************************************************)
EXTENDS Integers, Sequences, FiniteSets, TLC

VARIABLES file, session_state, run, lastSaver, writes

vars == <<file, session_state, run, lastSaver, writes>>

(* ------------------------------ bounds -------------------------------- *)

\* Most log entries of a document in a run of one session (Spec).
MaxLogs == 2

\* Most writes of the file in a run of two sessions (SpecShared).
MaxSharedWrites == 2

(* ------------------------------ inputs -------------------------------- *)

Sessions == {1, 2}

admin == <<"a", "d", "m", "i", "n">>
admin123 == <<"a", "d", "m", "i", "n", "1", "2", "3">>
alice == <<"a">>
bob == <<"b">>
blank == <<" ">>
pw1 == <<"p">>

\* What can be typed into the Username and the Password box.
Usernames == {<<>>, blank, alice, bob, admin}
Passwords == {<<>>, blank, pw1, admin123}

\* st.selectbox options.
TxnTypes == {"Earned", "Spent", "Given", "Received"}

\* st.number_input(min_value=0.0) never yields a negative number.
Amounts == {0, 20, 50}

\* The amounts typed when two sessions run.
SharedAmounts == {0, 20}

Descriptions == {"job"}

\* What datetime.now().strftime(...) can return: the wall clock is read anew
\* at every append and nothing orders two readings.
Timestamps == {"2025-01-01 09:00:00"}

\* Python's None for logged_in_user (no string of characters equals it) and
\* for page.
None == <<"None">>
NoPage == "None"

(* --------------------------- pure functions --------------------------- *)

Whitespace == {" "}

RECURSIVE lstrip(_)
lstrip(s) == IF s # <<>> /\ Head(s) \in Whitespace THEN lstrip(Tail(s)) ELSE s

RECURSIVE rstrip(_)
rstrip(s) ==
    IF s # <<>> /\ s[Len(s)] \in Whitespace
    THEN rstrip(SubSeq(s, 1, Len(s) - 1))
    ELSE s

\* Mutant: the text is compared as typed.
strip_none(s) == s

\* str.strip()
strip(s) == rstrip(lstrip(s))

\* SHA-256 hex digest: a deterministic function of the password alone (no
\* salt), free of collisions on the passwords typed here.
hash_password(password) == <<"sha256", password>>

EmptyDoc == [users |-> <<>>]

Bootstrap ==
    [users |-> (admin :> [password |-> hash_password(admin123),
                          role |-> "admin",
                          logs |-> <<>>])]

load_data(f) == IF f.exists THEN f.doc ELSE Bootstrap

\* Mutant: the users already in the file are kept beside the session's.
save_data_merge(f, data) ==
    [exists |-> TRUE,
     doc |-> IF f.exists THEN [users |-> data.users @@ f.doc.users] ELSE data]

\* Mutant: an existing file is not overwritten.
save_data_once(f, data) == IF f.exists THEN f ELSE [exists |-> TRUE, doc |-> data]

save_data(f, data) == [exists |-> TRUE, doc |-> data]

\* Mutant: the entry is put in front of the log.
log_transaction_front(data, user, t_type, amount, description, timestamp) ==
    LET entry == [type |-> t_type,
                  amount |-> amount,
                  description |-> description,
                  timestamp |-> timestamp]
    IN  [data EXCEPT !.users[user].logs = <<entry>> \o @]

log_transaction(data, user, t_type, amount, description, timestamp) ==
    LET entry == [type |-> t_type,
                  amount |-> amount,
                  description |-> description,
                  timestamp |-> timestamp]
    IN  [data EXCEPT !.users[user].logs = Append(@, entry)]

RECURSIVE sum(_)
sum(amounts) == IF amounts = <<>> THEN 0 ELSE Head(amounts) + sum(Tail(amounts))

OfType(logs, t) == SelectSeq(logs, LAMBDA log : log.type = t)

AmountsOf(logs) == [i \in 1..Len(logs) |-> logs[i].amount]

\* Mutant: received money is subtracted from the balance.
calculate_summary_sign(user_logs) ==
    LET earned == sum(AmountsOf(OfType(user_logs, "Earned")))
        spent == sum(AmountsOf(OfType(user_logs, "Spent")))
        given == sum(AmountsOf(OfType(user_logs, "Given")))
        received == sum(AmountsOf(OfType(user_logs, "Received")))
        balance == earned - received - spent - given
    IN  <<earned, spent, given, received, balance>>

calculate_summary(user_logs) ==
    LET earned == sum(AmountsOf(OfType(user_logs, "Earned")))
        spent == sum(AmountsOf(OfType(user_logs, "Spent")))
        given == sum(AmountsOf(OfType(user_logs, "Given")))
        received == sum(AmountsOf(OfType(user_logs, "Received")))
        balance == earned + received - spent - given
    IN  <<earned, spent, given, received, balance>>

(* --------------------------- admin rollup ----------------------------- *)

\* The rows of all_logs: every log of every user, tagged with its owner.
\* (The order of the users is the dict's; no total below depends on it.)
RECURSIVE all_logs_of(_, _)
all_logs_of(data, users) ==
    IF users = {} THEN <<>>
    ELSE LET user == CHOOSE u \in users : TRUE
             logs == data.users[user].logs
             rows == [i \in 1..Len(logs) |->
                        [User |-> user, type |-> logs[i].type, amount |-> logs[i].amount,
                         description |-> logs[i].description,
                         timestamp |-> logs[i].timestamp]]
         IN  rows \o all_logs_of(data, users \ {user})

all_logs(data) == all_logs_of(data, DOMAIN data.users)

\* df[df['type'] == t]['amount'].sum()
total_of(df, t) == sum(AmountsOf(SelectSeq(df, LAMBDA row : row.type = t)))

\* df.groupby("User")["amount"].sum(): one group per user that has a row.
by_user(df) ==
    [user \in {df[i].User : i \in 1..Len(df)} |->
        sum(AmountsOf(SelectSeq(df, LAMBDA row : row.User = user)))]

\* Mutant: total_spent is taken from the Earned rows.
rollup_copied(data) ==
    LET df == all_logs(data) IN
    IF df = <<>> THEN <<>>
    ELSE <<total_of(df, "Earned"), total_of(df, "Earned"),
           total_of(df, "Given"), total_of(df, "Received"), by_user(df)>>

\* What admin_dashboard computes: nothing when there is no transaction.
rollup(data) ==
    LET df == all_logs(data) IN
    IF df = <<>> THEN <<>>
    ELSE <<total_of(df, "Earned"), total_of(df, "Spent"),
           total_of(df, "Given"), total_of(df, "Received"), by_user(df)>>

(* ------------------------------- state -------------------------------- *)

Unstarted == [started |-> FALSE, data |-> EmptyDoc, logged_in_user |-> None, page |-> NoPage]

NoRun == [message |-> "none", shown |-> <<>>]

Init ==
    /\ file = [exists |-> FALSE, doc |-> EmptyDoc]
    /\ session_state = [s \in Sessions |-> Unstarted]
    /\ run = NoRun
    /\ lastSaver = 0
    /\ writes = 0

(* ----------------------- what one script run does --------------------- *)

\* Mutant: the role is not looked at.
Route_no_role(ss) ==
    IF ss.logged_in_user = None THEN "login_page" ELSE "user_dashboard"

\* The dispatch at the end of the script.
Route(ss) ==
    IF ss.logged_in_user = None THEN "login_page"
    ELSE IF ss.data.users[ss.logged_in_user].role = "admin" THEN "admin_dashboard"
    ELSE "user_dashboard"

\* Mutant: the password is not compared.
Authenticate_name_only(data, username, password) == username \in DOMAIN data.users

\* The condition of the Login button's handler.
Authenticate(data, username, password) ==
    /\ username \in DOMAIN data.users
    /\ data.users[username].password = hash_password(password)

\* Mutant: an existing username is not refused.
SignUpBranch_overwrite(data, username, password) ==
    IF strip(username) = <<>> \/ strip(password) = <<>> THEN "Username and password cannot be empty"
    ELSE "Account created! Logging you in..."

\* The branch the Sign Up button's handler takes.
SignUpBranch(data, username, password) ==
    IF strip(username) = <<>> \/ strip(password) = <<>> THEN "Username and password cannot be empty"
    ELSE IF username \in DOMAIN data.users THEN "Username already exists"
    ELSE "Account created! Logging you in..."

\* The record the Sign Up handler stores for a new account.
NewUser(password) ==
    [password |-> hash_password(password), role |-> "user", logs |-> <<>>]

AddUser(data, username, password) ==
    [users |-> (username :> NewUser(password)) @@ data.users]

\* Mutant: zero is let through.
AmountAccepted_zero(amount) == amount >= 0

\* The test the Submit Transaction handler makes on the amount.
AmountAccepted(amount) == amount > 0

\* What the run just finished put on the page: its st.success or st.error
\* box and the figures of a dashboard.
Ran(message, shown) ==
    run' = [message |-> message, shown |-> shown]

\* save_data() was called by session s.
Saved(s, data) ==
    /\ file' = save_data(file, data)
    /\ lastSaver' = s
    /\ writes' = writes + 1

NotSaved == UNCHANGED <<file, lastSaver, writes>>

\* First run of a session: session_state is empty and gets its three keys.
SessionInit(s) ==
    /\ ~session_state[s].started
    /\ session_state' = [session_state EXCEPT ![s] =
            [started |-> TRUE, data |-> load_data(file),
             logged_in_user |-> None, page |-> NoPage]]
    /\ Ran("none", <<>>)
    /\ NotSaved

Login(s, username, password) ==
    LET ss == session_state[s] IN
    /\ ss.started
    /\ Route(ss) = "login_page"
    /\ IF Authenticate(ss.data, username, password)
       THEN /\ session_state' = [session_state EXCEPT
                    ![s].logged_in_user = username, ![s].page = "dashboard"]
            /\ Ran("Welcome back", <<>>)
       ELSE /\ UNCHANGED session_state
            /\ Ran("Invalid username or password", <<>>)
    /\ NotSaved

SignUp(s, username, password) ==
    LET ss == session_state[s]
        branch == SignUpBranch(ss.data, username, password)
        data == AddUser(ss.data, username, password)
    IN
    /\ ss.started
    /\ Route(ss) = "login_page"
    /\ Ran(branch, <<>>)
    /\ IF branch = "Account created! Logging you in..."
       THEN /\ session_state' = [session_state EXCEPT
                    ![s].data = data,
                    ![s].logged_in_user = username,
                    ![s].page = "dashboard"]
            /\ Saved(s, data)
       ELSE /\ UNCHANGED session_state
            /\ NotSaved

LogOut(s) ==
    LET ss == session_state[s] IN
    /\ ss.started
    /\ \/ /\ Route(ss) = "user_dashboard"
          /\ session_state' = [session_state EXCEPT
                  ![s].logged_in_user = None, ![s].page = NoPage]
          /\ Ran("none", <<>>)
       \/ /\ Route(ss) = "admin_dashboard"
          /\ session_state' = [session_state EXCEPT ![s].logged_in_user = None]
          /\ Ran("none", <<>>)
    /\ NotSaved

MakeTransaction(s) ==
    LET ss == session_state[s] IN
    /\ ss.started
    /\ Route(ss) = "user_dashboard"
    /\ ss.page # "make_transaction"
    /\ session_state' = [session_state EXCEPT ![s].page = "make_transaction"]
    /\ Ran("none", <<>>)
    /\ NotSaved

SubmitTransaction(s, t_type, amount, description, timestamp) ==
    LET ss == session_state[s]
        data == log_transaction(ss.data, ss.logged_in_user, t_type, amount,
                                description, timestamp)
    IN
    /\ ss.started
    /\ Route(ss) = "user_dashboard"
    /\ ss.page = "make_transaction"
    /\ IF AmountAccepted(amount)
       THEN /\ session_state' = [session_state EXCEPT
                    ![s].data = data, ![s].page = "dashboard"]
            /\ Saved(s, data)
            /\ Ran("Transaction added!", <<>>)
       ELSE /\ UNCHANGED session_state
            /\ NotSaved
            /\ Ran("Amount must be greater than 0.", <<>>)

BackToDashboard(s) ==
    LET ss == session_state[s] IN
    /\ ss.started
    /\ Route(ss) = "user_dashboard"
    /\ ss.page = "make_transaction"
    /\ session_state' = [session_state EXCEPT ![s].page = "dashboard"]
    /\ Ran("none", <<>>)
    /\ NotSaved

\* A run with no button clicked (a tab or an input was touched): the page is
\* drawn again from session_state.
Rerun(s) ==
    LET ss == session_state[s] IN
    /\ ss.started
    /\ \/ /\ Route(ss) = "user_dashboard"
          /\ ss.page # "make_transaction"
          /\ Ran("none", calculate_summary(ss.data.users[ss.logged_in_user].logs))
       \/ /\ Route(ss) = "admin_dashboard"
          /\ Ran("none", rollup(ss.data))
    /\ UNCHANGED session_state
    /\ NotSaved

\* The number of log entries of a document.
RECURSIVE CountLogs(_, _)
CountLogs(data, users) ==
    IF users = {} THEN 0
    ELSE LET user == CHOOSE u \in users : TRUE
         IN  Len(data.users[user].logs) + CountLogs(data, users \ {user})

\* Bound of the exploration: the session's document holds at most n entries.
LogsWithin(s, n) ==
    CountLogs(session_state[s].data, DOMAIN session_state[s].data.users) <= n

\* One browser session.
Next ==
    \/ SessionInit(1)
    \/ \E username \in Usernames, password \in Passwords : Login(1, username, password)
    \/ \E username \in Usernames, password \in Passwords : SignUp(1, username, password)
    \/ LogOut(1)
    \/ MakeTransaction(1)
    \/ \E t_type \in TxnTypes, amount \in Amounts, description \in Descriptions,
          timestamp \in Timestamps :
            /\ SubmitTransaction(1, t_type, amount, description, timestamp)
            /\ LogsWithin(1, MaxLogs)'
    \/ BackToDashboard(1)
    \/ Rerun(1)

Spec == Init /\ [][Next]_vars

\* Two browser sessions on one file.
NextShared ==
    \E s \in Sessions :
        \/ SessionInit(s)
        \/ \E username \in Usernames, password \in Passwords : Login(s, username, password)
        \/ \E username \in Usernames, password \in Passwords :
                SignUp(s, username, password) /\ writes' <= MaxSharedWrites
        \/ LogOut(s)
        \/ MakeTransaction(s)
        \/ \E t_type \in TxnTypes, amount \in SharedAmounts, description \in Descriptions,
              timestamp \in Timestamps :
                /\ SubmitTransaction(s, t_type, amount, description, timestamp)
                /\ writes' <= MaxSharedWrites
        \/ BackToDashboard(s)
        \/ Rerun(s)

SpecShared == Init /\ [][NextShared]_vars

(* ============================== claims =============================== *)

S1 == session_state[1]

Users(data) == DOMAIN data.users

Logs(data, user) == data.users[user].logs

\* The sum of the amounts of the entries of type t, counted entry by entry.
RECURSIVE Appended(_, _, _)
Appended(logs, t, n) ==
    IF n = 0 THEN 0
    ELSE Appended(logs, t, n - 1) + (IF logs[n].type = t THEN logs[n].amount ELSE 0)

TypeIndex(t) ==
    CASE t = "Earned" -> 1 [] t = "Spent" -> 2 [] t = "Given" -> 3 [] t = "Received" -> 4

Sign(t) == IF t \in {"Earned", "Received"} THEN 1 ELSE -1

StoreUnchanged == session_state' = session_state /\ file' = file /\ writes' = writes

(* ------------------------------- C1 ---------------------------------- *)

SummaryIsSumOfAppended ==
    \A user \in Users(S1.data) :
        LET logs == Logs(S1.data, user)
            summary == calculate_summary(logs)
        IN  /\ \A t \in TxnTypes : summary[TypeIndex(t)] = Appended(logs, t, Len(logs))
            /\ summary[5] = summary[1] + summary[4] - summary[2] - summary[3]

AppendRaisesOneBucket ==
    \A t_type \in TxnTypes, amount \in Amounts, description \in Descriptions,
       timestamp \in Timestamps :
        amount > 0 /\ SubmitTransaction(1, t_type, amount, description, timestamp) =>
            LET user == S1.logged_in_user
                before == calculate_summary(Logs(S1.data, user))
                after == calculate_summary(Logs(S1.data, user)')
            IN  /\ after[TypeIndex(t_type)] = before[TypeIndex(t_type)] + amount
                /\ \A t \in TxnTypes \ {t_type} : after[TypeIndex(t)] = before[TypeIndex(t)]
                /\ after[5] = before[5] + Sign(t_type) * amount

\* C1: in every reachable state, summarize of each user's log gives, for each
\* of the four types, the sum of the amounts appended with that type, and
\* balance = earned + received - spent - given; and every successful append of
\* (type, amount) raises that type's bucket by amount, leaves the other three
\* alone and moves balance by +amount (Earned, Received) or -amount (Spent,
\* Given).
C1_SummarizeAfterAppend == []SummaryIsSumOfAppended /\ [][AppendRaisesOneBucket]_vars

\* alice appended Earned 50 then Spent 20 and her dashboard shows
\* earned=50, spent=20, given=0, received=0, balance=30.
C1_Witness ==
    /\ S1.logged_in_user = alice
    /\ Len(Logs(S1.data, alice)) = 2
    /\ Logs(S1.data, alice)[1].type = "Earned" /\ Logs(S1.data, alice)[1].amount = 50
    /\ Logs(S1.data, alice)[2].type = "Spent" /\ Logs(S1.data, alice)[2].amount = 20
    /\ run.shown = <<50, 20, 0, 0, 30>>

(* ------------------------------- C2 ---------------------------------- *)

AmountsPositive(data) ==
    \A user \in Users(data) :
        \A i \in 1..Len(Logs(data, user)) : Logs(data, user)[i].amount > 0

AllAmountsPositive ==
    /\ AmountsPositive(file.doc)
    /\ \A s \in Sessions : AmountsPositive(session_state[s].data)

NonPositiveRejected ==
    \/ StoreUnchanged
    \/ \A t_type \in TxnTypes, amount \in Amounts, description \in Descriptions,
          timestamp \in Timestamps :
            ~(amount <= 0 /\ SubmitTransaction(1, t_type, amount, description, timestamp))

\* C2: a submitted transaction with amount <= 0 changes no log, no user's
\* record and not the persisted document; every amount in every log, in
\* memory and persisted, is strictly positive.
C2_NonPositiveRejected == []AllAmountsPositive /\ [][NonPositiveRejected]_vars

\* The rejection was shown to a user who has a log.
C2_Witness ==
    /\ run.message = "Amount must be greater than 0."
    /\ S1.logged_in_user = alice
    /\ Len(Logs(S1.data, alice)) = 1
    /\ file.doc = S1.data

(* ------------------------------- C3 ---------------------------------- *)

DuplicateRegisterFails ==
    \/ /\ StoreUnchanged
       /\ S1.logged_in_user' = None
       /\ run'.message # "Account created! Logging you in..."
    \/ \A username \in Usernames, password \in Passwords :
            ~(username \in Users(S1.data) /\ SignUp(1, username, password))

\* C3: Sign Up with a username already in the Store fails: the account's
\* password hash, role and logs, the rest of the session and the persisted
\* document are unchanged, and the session stays logged out.
C3_DuplicateRegisterFails == [][DuplicateRegisterFails]_vars

\* "Username already exists" was shown while alice holds an account with a log.
C3_Witness ==
    /\ run.message = "Username already exists"
    /\ alice \in Users(S1.data)
    /\ Len(Logs(S1.data, alice)) = 1
    /\ S1.logged_in_user = None

(* ------------------------------- C4 ---------------------------------- *)

CredentialsMatch(username, password) ==
    /\ username \in Users(S1.data)
    /\ S1.data.users[username].password = hash_password(password)

\* A Login run that changes nothing had no matching credentials; one that
\* changes something had them, logged that user in and left the Store alone.
LoginIffHashMatches ==
    IF StoreUnchanged
    THEN \A username \in Usernames, password \in Passwords :
            CredentialsMatch(username, password) => ~Login(1, username, password)
    ELSE \/ ~S1.started
         \/ S1.logged_in_user # None
         \/ \A username \in Usernames, password \in Passwords :
                Login(1, username, password) =>
                    /\ CredentialsMatch(username, password)
                    /\ S1.logged_in_user' = username
                    /\ S1.data' = S1.data
                    /\ file' = file

\* C4: Login succeeds if and only if the username is a key of the Store's
\* users and the hash of the password equals the stored digest; a failed
\* attempt changes neither the Store nor the logged-in user.
C4_AuthenticateIffHashMatches == [][LoginIffHashMatches]_vars

\* admin / admin123 is logged in on the bootstrap store, with no file written.
C4_Witness ==
    /\ S1.logged_in_user = admin
    /\ S1.data = Bootstrap
    /\ ~file.exists
    /\ run.message = "Welcome back"

(* ------------------------------- C5 ---------------------------------- *)

\* The sum over the users of the summarize bucket i of each user's log.
RECURSIVE BucketOverUsers(_, _, _)
BucketOverUsers(data, users, i) ==
    IF users = {} THEN 0
    ELSE LET user == CHOOSE u \in users : TRUE
         IN  calculate_summary(Logs(data, user))[i] + BucketOverUsers(data, users \ {user}, i)

\* The sum of all the amounts of one log, entry by entry.
RECURSIVE Logged(_, _)
Logged(logs, n) == IF n = 0 THEN 0 ELSE Logged(logs, n - 1) + logs[n].amount

RollupMatches(data, shown) ==
    /\ \A i \in 1..4 : shown[i] = BucketOverUsers(data, Users(data), i)
    /\ DOMAIN shown[5] = {user \in Users(data) : Logs(data, user) # <<>>}
    /\ \A user \in DOMAIN shown[5] :
            shown[5][user] = Logged(Logs(data, user), Len(Logs(data, user)))

\* What the admin's page shows is the rollup of the Store as it is now.
AdminSeesRollup ==
    S1.started /\ S1.logged_in_user = admin /\ run.shown # <<>> =>
        RollupMatches(S1.data, run.shown)

RollupOfStore ==
    \A s \in Sessions :
        LET data == session_state[s].data IN
        IF \A user \in Users(data) : Logs(data, user) = <<>>
        THEN rollup(data) = <<>>
        ELSE RollupMatches(data, rollup(data))

RerunIsPure == Rerun(1) => StoreUnchanged

\* C5: the admin rollup is a function of the current Store alone: each of the
\* four totals is the sum over all users of that user's summarize bucket, the
\* per-user totals list every user that has a transaction with the sum of
\* that user's logged amounts (with no transaction at all the dashboard
\* computes no figure), and computing it leaves the Store unchanged.
C5_RollupIsSumOverUsers == [](AdminSeesRollup /\ RollupOfStore) /\ [][RerunIsPure]_vars

\* alice logged Earned 50, bob logged Earned 20, and the admin's dashboard
\* shows total earned 70 and the per-user totals alice 50, bob 20.
C5_Witness ==
    /\ S1.logged_in_user = admin
    /\ run.shown = <<70, 0, 0, 0, (alice :> 50) @@ (bob :> 20)>>

(* ------------------------------- C6 ---------------------------------- *)

\* C6: the persisted document is, whenever it exists, the whole in-memory
\* copy of the session that saved last (so what another session saved before
\* and that copy does not hold is gone), and no file exists before a save.
C6_LastWriterWins ==
    IF file.exists
    THEN /\ lastSaver \in Sessions
         /\ file.doc = session_state[lastSaver].data
    ELSE lastSaver = 0 /\ writes = 0

\* Session 1 registered alice and saved; session 2, which had loaded its copy
\* before, then registered bob and saved: alice is not in the file.
C6_Witness ==
    /\ alice \in Users(session_state[1].data)
    /\ lastSaver = 2
    /\ writes = 2
    /\ bob \in Users(file.doc)
    /\ alice \notin Users(file.doc)

(* ------------------------------- C7 ---------------------------------- *)

IsPrefixOrOneMore(old, new) ==
    /\ Len(new) \in {Len(old), Len(old) + 1}
    /\ SubSeq(new, 1, Len(old)) = old

LogsOnlyGrowAtEnd ==
    S1.started =>
        \A user \in Users(S1.data) :
            /\ user \in Users(S1.data')
            /\ IsPrefixOrOneMore(Logs(S1.data, user), Logs(S1.data', user))

\* C7: every step of a session leaves each user's log unchanged or extended
\* by exactly one entry at its end; no entry is edited, reordered or removed
\* and no user disappears.
C7_LogsAppendOnly == [][LogsOnlyGrowAtEnd]_vars

\* alice's log holds two different entries, in the order they were appended.
C7_Witness ==
    /\ alice \in Users(S1.data)
    /\ Len(Logs(S1.data, alice)) = 2
    /\ Logs(S1.data, alice)[1].type = "Given"
    /\ Logs(S1.data, alice)[2].type = "Received"
    /\ run.message = "Transaction added!"

(* ------------------------------- C8 ---------------------------------- *)

\* C8: with one session, from the first successful register or append on the
\* persisted document equals the session's in-memory Store after every
\* operation; before it the session holds the bootstrap document and no file
\* exists.
C8_PersistedAfterEveryMutation ==
    IF writes > 0
    THEN file.exists /\ file.doc = S1.data
    ELSE /\ ~file.exists
         /\ S1.started => S1.data = Bootstrap

\* After a register and an append the user logged out: the file still equals
\* the Store.
C8_Witness ==
    /\ writes = 2
    /\ S1.logged_in_user = None
    /\ alice \in Users(S1.data)
    /\ Len(Logs(S1.data, alice)) = 1
    /\ file.doc = S1.data

(* ------------------------------- C9 ---------------------------------- *)

OnlyAdminIsAdmin ==
    \A s \in Sessions :
        \A user \in Users(session_state[s].data) :
            session_state[s].data.users[user].role = "admin" <=> user = admin

Registered(username, password) ==
    /\ S1.logged_in_user' = username
    /\ Users(S1.data') = Users(S1.data) \cup {username}
    /\ S1.data'.users[username] =
            [password |-> hash_password(password), role |-> "user", logs |-> <<>>]
    /\ \A user \in Users(S1.data) : S1.data'.users[user] = S1.data.users[user]

\* A Sign Up run that changes nothing was not given a new username with a
\* username and a password that are not Empty; one that changes something was
\* given neither an Empty username nor an Empty password, and registered the
\* username if it was new.
RegisterUnless(Empty(_)) ==
    IF StoreUnchanged
    THEN \A username \in Usernames, password \in Passwords :
            ~Empty(username) /\ ~Empty(password) /\ username \notin Users(S1.data) =>
                ~SignUp(1, username, password)
    ELSE \/ ~S1.started
         \/ S1.logged_in_user # None
         \/ \A username \in Usernames, password \in Passwords :
                SignUp(1, username, password) =>
                    /\ ~Empty(username)
                    /\ ~Empty(password)
                    /\ username \notin Users(S1.data) => Registered(username, password)

IsEmpty(text) == text = <<>>

RegisterUnlessEmpty == RegisterUnless(IsEmpty)

\* C9 as stated: Sign Up fails when the username or the password is empty,
\* and otherwise, for a username not yet present, adds that one user with
\* role "user" and empty logs and logs the session in.
C9_Original == [][RegisterUnlessEmpty]_vars

IsBlank(text) == \A i \in 1..Len(text) : text[i] = " "

RegisterUnlessBlank == RegisterUnless(IsBlank)

\* C9 amended: Sign Up fails when the username or the password is empty or
\* holds only whitespace; otherwise, for a username not yet present, it adds
\* exactly that user with role "user" and empty logs, leaves every other
\* record unchanged and logs the session in; the only account with role
\* "admin" is "admin".
C9_RegisterUnlessBlank == []OnlyAdminIsAdmin /\ [][RegisterUnlessBlank]_vars

\* bob registered after alice, who keeps her log, and is logged in.
C9_Witness ==
    /\ run.message = "Account created! Logging you in..."
    /\ S1.logged_in_user = bob
    /\ S1.data.users[bob] = [password |-> hash_password(pw1), role |-> "user", logs |-> <<>>]
    /\ alice \in Users(S1.data)
    /\ Len(Logs(S1.data, alice)) = 1

(* ------------------------------- C10 --------------------------------- *)

\* The state of the session state machine.
State(ss) ==
    IF ss.logged_in_user = None THEN "LoggedOut"
    ELSE IF ss.data.users[ss.logged_in_user].role = "admin" THEN "AdminDashboard"
    ELSE IF ss.page = "make_transaction" THEN "UserTransactionEntry"
    ELSE "UserDashboard"

AdminLogEmpty ==
    /\ S1.started => Logs(S1.data, admin) = <<>>
    /\ file.exists => Logs(file.doc, admin) = <<>>

LogOutAlwaysOffered == S1.started /\ State(S1) # "LoggedOut" => ENABLED LogOut(1)

SessionMachine ==
    /\ SessionInit(1) => State(S1') = "LoggedOut"
    /\ S1.started /\ State(S1) = "LoggedOut" /\ State(S1') # "LoggedOut" =>
            State(S1') = (IF S1.data'.users[S1.logged_in_user'].role = "admin"
                          THEN "AdminDashboard" ELSE "UserDashboard")
    /\ LogOut(1) => State(S1') = "LoggedOut"
    /\ S1.started =>
            \A user \in Users(S1.data) :
                Logs(S1.data', user) # Logs(S1.data, user) =>
                    /\ State(S1) = "UserTransactionEntry"
                    /\ user = S1.logged_in_user
                    /\ S1.data.users[user].role # "admin"

\* C10: a session starts LoggedOut; a successful Login or Sign Up takes it to
\* AdminDashboard for an admin account and to UserDashboard otherwise, never
\* to UserTransactionEntry; Log Out is offered in the three logged-in states
\* and leads to LoggedOut; a log changes only in UserTransactionEntry, and it
\* is the log of the logged-in, non-admin user; the admin's log stays empty.
C10_SessionStateMachine ==
    [](AdminLogEmpty /\ LogOutAlwaysOffered) /\ [][SessionMachine]_vars

\* alice appended from the transaction page and is back on her dashboard.
C10_Witness ==
    /\ run.message = "Transaction added!"
    /\ S1.logged_in_user = alice
    /\ State(S1) = "UserDashboard"
    /\ Len(Logs(S1.data, alice)) = 1

====
